---- MODULE Spec2Model ----
(***************************************************************************)
(* A model of llama_index/llms/llama_cpp.py: the LlamaCPP adapter.         *)
(*                                                                         *)
(*   Spec       the constructor (artifact resolution, _download_url,       *)
(*              engine load, field initialisation), repeated over one      *)
(*              persistent filesystem;                                     *)
(*   SpecCalls  single-threaded complete / chat / stream_complete /        *)
(*              stream_chat calls on a constructed instance, with lazily   *)
(*              consumed generators;                                       *)
(*   SpecConc   two threads calling complete / stream_complete on one      *)
(*              instance, interleaved at statement granularity.            *)
(*                                                                         *)
(* Text (prompts, deltas, header values) is a sequence of one-character    *)
(* strings; a path or a URL is the sequence of its segments.  The llama_cpp*)
(* library is taken to be installed (the import at lines 79-87 succeeds).  *)
(***************************************************************************)
EXTENDS Integers, Sequences, FiniteSets, TLC

VARIABLES
    \* ---- the filesystem and the constructor's frame
    fs,               \* the paths that exist (os.path.exists), files and directories
    pc,               \* the constructor's position
    model_url,        \* __init__ argument
    model_path_arg,   \* __init__ argument model_path (None when not supplied)
    model_path,       \* the local variable model_path once resolved
    header,           \* r.headers.get("Content-Length")
    total_size,       \* _download_url: total_size
    written,          \* _download_url: bytes written to the file so far
    completed,        \* _download_url: completed
    failure,          \* what went wrong inside _download_url ("none" when nothing)
    caught,           \* whether the except clause ran (the error was printed)
    err,              \* the exception __init__ raised to its caller ("none" when none)
    engineLoads,      \* the Llama(model_path=...) constructions of this __init__
    netGets,          \* requests.get calls of this __init__
    fsWrites,         \* filesystem mutations of this __init__
    cacheHit,         \* what os.path.exists said at line 105: "hit", "miss" ("unknown" before)
    fsAtBegin,        \* the filesystem when this __init__ started
    downloaded,       \* the downloads that completed, over all constructions
    nCtor,            \* constructions started so far
    \* ---- the instance
    generate_kwargs,  \* self.generate_kwargs
    desc,             \* the other fields of the instance
    atCtor,           \* generate_kwargs and desc as __init__ left them
    \* ---- single-threaded calls
    hist,             \* the finished complete / chat calls, in order
    streams,          \* the generators returned by stream_complete / stream_chat
    nCalls,           \* calls made so far
    \* ---- concurrent calls
    tpc,              \* each thread's position
    tcall,            \* each thread's current call, and how many it has made
    invLog,           \* engine invocations made by the threads
    lastWrite         \* the last write of generate_kwargs["stream"]: thread and value

argVars == <<model_url, model_path_arg, fsAtBegin, nCtor>>
dlVars == <<header, total_size, written, completed, failure, caught>>
ctorVars_but_pc == <<fs, model_path, err, engineLoads, netGets, fsWrites, cacheHit,
                     downloaded, argVars, dlVars>>
ctorVars == <<pc, ctorVars_but_pc>>
instVars == <<generate_kwargs, desc, atCtor>>
callVars == <<hist, streams, nCalls>>
concVars == <<tpc, tcall, invLog, lastWrite>>
vars == <<ctorVars, instVars, callVars, concVars>>

\* Python's None where a path or a URL is expected
None == <<>>

(***************************************************************************)
(* Bounds.                                                                 *)
(***************************************************************************)
MaxConstructions == 2
MaxCalls == 2
MaxStreams == 1
MaxChunks == 2
MaxThreadCalls == 2

(***************************************************************************)
(* Program constants.                                                      *)
(***************************************************************************)
MinSize == 1000 * 1000

ChunkSize == 1024 * 1024

(***************************************************************************)
(* Text, paths.                                                            *)
(***************************************************************************)
Digits == <<"0", "1", "2", "3", "4", "5", "6", "7", "8", "9">>

IsDigit(c) == \E i \in 1..10 : Digits[i] = c

DigitVal(c) == (CHOOSE i \in 1..10 : Digits[i] = c) - 1

\* int(s) for a string of decimal digits; -1 stands for the ValueError int() raises.
RECURSIVE ParseInt(_)
ParseInt(s) ==
    IF s = <<>> THEN -1
    ELSE IF ~IsDigit(s[Len(s)]) THEN -1
    ELSE IF Len(s) = 1 THEN DigitVal(s[1])
    ELSE LET hd == ParseInt(SubSeq(s, 1, Len(s) - 1))
         IN  IF hd < 0 THEN -1 ELSE 10 * hd + DigitVal(s[Len(s)])

\* r.headers.get("Content-Length") or "0"
HeaderOrZero(h) == IF ~h.present \/ h.value = <<>> THEN <<"0">> ELSE h.value

Basename(p) == IF p = <<>> THEN "" ELSE p[Len(p)]

Dirname(p) == IF p = <<>> THEN <<>> ELSE SubSeq(p, 1, Len(p) - 1)

\* a path and every directory above it
Ancestors(p) == {SubSeq(p, 1, k) : k \in 1..Len(p)}

Exists(files, p) == p \in files

CacheDir == <<"cache">>

\* os.path.join(cache_dir, "models", model_name)
CachePath(url) == CacheDir \o <<"models", Basename(url)>>

(***************************************************************************)
(* Inputs.                                                                 *)
(***************************************************************************)
Urls == {<<"hostA", "a.bin">>, <<"hostB", "a.bin">>, <<"hostA", "b.bin">>}

ExplicitPaths == {<<"m", "x.bin">>, <<"cache", "models", "a.bin">>}

\* files that may be there before the first construction
InitialFiles == {<<"m", "x.bin">>, <<"cache", "models", "a.bin">>}

\* the Content-Length header: absent (headers.get gives None) or a string
NoHeader == [present |-> FALSE, value |-> <<>>]

HeaderValues ==
    {NoHeader} \cup
    { [present |-> TRUE, value |-> v] :
        v \in { <<>>,
                <<"1", "M", "B">>,
                <<"9", "9", "9", "9", "9", "9">>,
                <<"1", "0", "0", "0", "0", "0", "0">>,
                <<"2", "5", "0", "0", "0", "0", "0">> } }

EmptyDict == [x \in {} |-> 0]

\* the generate_kwargs argument: absent, an option of the engine, or keys that
\* __init__ and the calls overwrite
UserGenerateKwargs ==
    { EmptyDict,
      [top_k |-> 40, temperature |-> "0.9", stream |-> TRUE] }

\* the model_kwargs argument
UserModelKwargs == { EmptyDict, [n_ctx |-> 512] }

\* the temperature, max_new_tokens, context_window and verbose arguments
Temperature == "0.1"

MaxNewTokens == 256

ContextWindow == 3900

Verbose == TRUE

\* dict.update with one key
DictSet(d, k, v) == [x \in (DOMAIN d) \cup {k} |-> IF x = k THEN v ELSE d[x]]

\* dict.update with another dict
DictUpdate(d, e) ==
    [x \in (DOMAIN d) \cup (DOMAIN e) |-> IF x \in DOMAIN e THEN e[x] ELSE d[x]]

(***************************************************************************)
(* The constructor, LlamaCPP.__init__.                                     *)
(***************************************************************************)
NoInstance == [model_path |-> None]

\* total_size before line 150 assigns it
Unset == 0 - 1

\* lines 65-90: a call of the constructor with its arguments
Begin(url, path) ==
    /\ pc \in {"idle", "ready", "failed"}
    /\ nCtor < MaxConstructions
    /\ nCtor' = nCtor + 1
    /\ model_url' = url
    /\ model_path_arg' = path
    /\ model_path' = path
    /\ header' = NoHeader
    /\ total_size' = Unset
    /\ written' = 0
    /\ completed' = FALSE
    /\ failure' = "none"
    /\ caught' = FALSE
    /\ err' = "none"
    /\ engineLoads' = <<>>
    /\ netGets' = 0
    /\ fsWrites' = 0
    /\ cacheHit' = "unknown"
    /\ fsAtBegin' = fs
    /\ generate_kwargs' = EmptyDict
    /\ desc' = NoInstance
    /\ atCtor' = [generate_kwargs |-> EmptyDict, desc |-> NoInstance]
    /\ pc' = "resolve"
    /\ UNCHANGED <<fs, downloaded, callVars, concVars>>

\* a variant that falls back to the cache path when the explicit path is missing
ResolveExplicitFallThrough ==
    /\ pc = "resolve"
    /\ model_path_arg # None
    /\ IF ~Exists(fs, model_path)
       THEN /\ model_path' = CachePath(model_url)
            /\ pc' = IF Exists(fs, CachePath(model_url)) THEN "load" ELSE "makedirs"
       ELSE /\ model_path' = model_path
            /\ pc' = "load"
    /\ UNCHANGED <<fs, err, engineLoads, netGets, fsWrites, cacheHit,
                   downloaded, argVars, dlVars, instVars, callVars, concVars>>

\* lines 93-100: an explicit model_path must exist
ResolveExplicit ==
    /\ pc = "resolve"
    /\ model_path_arg # None
    /\ IF ~Exists(fs, model_path)
       THEN /\ err' = "PathNotExist"
            /\ pc' = "failed"
       ELSE /\ err' = err
            /\ pc' = "load"
    /\ UNCHANGED <<fs, model_path, engineLoads, netGets, fsWrites, cacheHit,
                   downloaded, argVars, dlVars, instVars, callVars, concVars>>

\* get_cache_dir(): the cache root, created on demand
GetCacheDir(files) == files \cup Ancestors(CacheDir)

\* a variant that downloads whether or not the file is cached
MustDownloadAlways(files, p) == TRUE

\* line 105: if not os.path.exists(model_path)
MustDownload(files, p) == ~Exists(files, p)

\* lines 101-105: the cache path derived from the URL, and whether it is there
ResolveCache ==
    /\ pc = "resolve"
    /\ model_path_arg = None
    /\ LET files == GetCacheDir(fs)
           p == CachePath(model_url)
       IN  /\ fs' = files
           /\ fsWrites' = IF files = fs THEN fsWrites ELSE fsWrites + 1
           /\ model_path' = p
           /\ cacheHit' = IF Exists(files, p) THEN "hit" ELSE "miss"
           /\ pc' = IF MustDownload(files, p) THEN "makedirs" ELSE "load"
    /\ UNCHANGED <<err, engineLoads, netGets, downloaded, argVars, dlVars,
                   instVars, callVars, concVars>>

\* line 106: os.makedirs(os.path.dirname(model_path), exist_ok=True)
MakeDirs ==
    /\ pc = "makedirs"
    /\ fs' = fs \cup Ancestors(Dirname(model_path))
    /\ fsWrites' = IF fs' = fs THEN fsWrites ELSE fsWrites + 1
    /\ pc' = "dl_get"
    /\ UNCHANGED <<model_path, err, engineLoads, netGets, cacheHit, downloaded,
                   argVars, dlVars, instVars, callVars, concVars>>

(***************************************************************************)
(* _download_url(model_url, model_path), lines 144-171.                    *)
(*                                                                         *)
(* failure names what went wrong: an Exception (caught at line 165 and     *)
(* printed) or "Interrupt", a BaseException such as KeyboardInterrupt,     *)
(* which skips the except clause and reaches the finally clause directly.  *)
(***************************************************************************)

\* line 148: requests.get(model_url, stream=True)
DlGet ==
    /\ pc = "dl_get"
    /\ netGets' = netGets + 1
    /\ \/ \E h \in HeaderValues :
             /\ header' = h
             /\ failure' = failure
             /\ pc' = "dl_open"
       \/ /\ failure' = "NetworkErrorBeforeOpen"
          /\ header' = header
          /\ pc' = "dl_except"
       \/ /\ failure' = "Interrupt"
          /\ header' = header
          /\ pc' = "dl_finally"
    /\ UNCHANGED <<fs, model_path, err, engineLoads, fsWrites, cacheHit, downloaded,
                   argVars, total_size, written, completed, caught,
                   instVars, callVars, concVars>>

\* line 149: open(model_path, "wb") creates the file, or raises an OSError
DlOpen ==
    /\ pc = "dl_open"
    /\ \/ /\ fs' = fs \cup {model_path}
          /\ fsWrites' = fsWrites + 1
          /\ failure' = failure
          /\ pc' = "dl_size"
       \/ /\ failure' = "OpenError"
          /\ pc' = "dl_except"
          /\ UNCHANGED <<fs, fsWrites>>
    /\ UNCHANGED <<model_path, err, engineLoads, netGets, cacheHit, downloaded,
                   argVars, header, total_size, written, completed, caught,
                   instVars, callVars, concVars>>

\* a variant with the threshold a factor 1000 too low
TooSmallLowThreshold(size) == size < 1000

\* line 151: if total_size < 1000 * 1000
TooSmall(size) == size < MinSize

\* lines 150-157: the size the source reports, and its validation
DlSize ==
    /\ pc = "dl_size"
    /\ LET size == ParseInt(HeaderOrZero(header))
       IN  IF size < 0
           THEN /\ failure' = "BadContentLength"
                /\ total_size' = total_size
                /\ pc' = "dl_except"
           ELSE /\ total_size' = size
                /\ IF TooSmall(size)
                   THEN /\ failure' = "ContentValidation"
                        /\ pc' = "dl_except"
                   ELSE /\ failure' = failure
                        /\ pc' = "dl_write"
    /\ UNCHANGED <<fs, model_path, err, engineLoads, netGets, fsWrites, cacheHit,
                   downloaded, argVars, header, written, completed, caught,
                   instVars, callVars, concVars>>

Min(a, b) == IF a < b THEN a ELSE b

\* lines 159-164: one chunk of at most chunk_size bytes per iteration; after the
\* last one the with blocks close and completed = True
DlWrite ==
    /\ pc = "dl_write"
    /\ IF written < total_size
       THEN \/ /\ written' = written + Min(ChunkSize, total_size - written)
               /\ fsWrites' = fsWrites + 1
               /\ UNCHANGED <<failure, completed, pc, downloaded>>
            \/ /\ failure' = "NetworkErrorMidWrite"
               /\ pc' = "dl_except"
               /\ UNCHANGED <<written, fsWrites, completed, downloaded>>
            \/ /\ failure' = "Interrupt"
               /\ pc' = "dl_finally"
               /\ UNCHANGED <<written, fsWrites, completed, downloaded>>
       ELSE /\ completed' = TRUE
            /\ downloaded' = Append(downloaded, model_path)
            /\ pc' = "dl_finally"
            /\ UNCHANGED <<written, fsWrites, failure>>
    /\ UNCHANGED <<fs, model_path, err, engineLoads, netGets, cacheHit,
                   argVars, header, total_size, caught,
                   instVars, callVars, concVars>>

\* lines 165-166: except Exception as e: print(...)
DlExcept ==
    /\ pc = "dl_except"
    /\ caught' = TRUE
    /\ pc' = "dl_finally"
    /\ UNCHANGED <<fs, model_path, err, engineLoads, netGets, fsWrites, cacheHit,
                   downloaded, argVars, header, total_size, written, completed,
                   failure, instVars, callVars, concVars>>

\* a variant without the finally clause: nothing removed, nothing raised
DlFinallyNoCleanup ==
    /\ pc = "dl_finally"
    /\ pc' = "assert"
    /\ UNCHANGED <<fs, fsWrites, err, model_path, engineLoads, netGets, cacheHit,
                   downloaded, argVars, dlVars, instVars, callVars, concVars>>

\* lines 167-171: finally: if not completed: os.remove(model_path); raise
\* ValueError("Download incomplete.").  os.remove raises FileNotFoundError for a
\* path that is not there, and that exception is the one that leaves the routine.
DlFinally ==
    /\ pc = "dl_finally"
    /\ IF completed
       THEN /\ pc' = "assert"
            /\ UNCHANGED <<fs, fsWrites, err>>
       ELSE IF ~Exists(fs, model_path)
       THEN /\ err' = "FileNotFoundError"
            /\ pc' = "failed"
            /\ UNCHANGED <<fs, fsWrites>>
       ELSE /\ fs' = fs \ {model_path}
            /\ fsWrites' = fsWrites + 1
            /\ err' = "DownloadIncomplete"
            /\ pc' = "failed"
    /\ UNCHANGED <<model_path, engineLoads, netGets, cacheHit, downloaded,
                   argVars, dlVars, instVars, callVars, concVars>>

\* line 108: assert os.path.exists(model_path)
AssertExists ==
    /\ pc = "assert"
    /\ IF Exists(fs, model_path)
       THEN /\ pc' = "load"
            /\ err' = err
       ELSE /\ pc' = "failed"
            /\ err' = "AssertionError"
    /\ UNCHANGED <<fs, model_path, engineLoads, netGets, fsWrites, cacheHit,
                   downloaded, argVars, dlVars, instVars, callVars, concVars>>

\* line 90: model_kwargs.update({"n_ctx": context_window, "verbose": verbose})
ModelKwargs(user) == DictUpdate(user, [n_ctx |-> ContextWindow, verbose |-> Verbose])

\* lines 100 and 110: Llama(model_path=model_path, **model_kwargs), which may raise
LoadEngine ==
    /\ pc = "load"
    /\ \E user \in UserModelKwargs :
          engineLoads' = Append(engineLoads,
                                [path |-> model_path,
                                 existed |-> Exists(fs, model_path),
                                 kwargs |-> ModelKwargs(user)])
    /\ \/ /\ pc' = "super"
          /\ err' = err
       \/ /\ pc' = "failed"
          /\ err' = "EngineError"
    /\ UNCHANGED <<fs, model_path, netGets, fsWrites, cacheHit, downloaded,
                   argVars, dlVars, instVars, callVars, concVars>>

\* the messages_to_prompt and completion_to_prompt arguments: the default (None)
\* or a function of the caller's
Formatters == {"default", "custom"}

\* lines 116-119: generate_kwargs.update({"temperature": ..., "max_tokens": ...})
GenerateKwargs(user) ==
    DictUpdate(user, [temperature |-> Temperature, max_tokens |-> MaxNewTokens])

\* lines 112-133: the fields super().__init__ stores
Fields(path, url, mk, m2p, c2p) ==
    [ model_path |-> path,
      model_url |-> url,
      temperature |-> Temperature,
      context_window |-> ContextWindow,
      max_new_tokens |-> MaxNewTokens,
      messages_to_prompt |-> m2p,
      completion_to_prompt |-> c2p,
      model_kwargs |-> mk,
      verbose |-> Verbose ]

SuperInit ==
    /\ pc = "super"
    /\ \E user \in UserGenerateKwargs, m2p \in Formatters, c2p \in Formatters :
          /\ generate_kwargs' = GenerateKwargs(user)
          /\ desc' = Fields(model_path, model_url,
                            engineLoads[Len(engineLoads)].kwargs, m2p, c2p)
          /\ atCtor' = [generate_kwargs |-> generate_kwargs', desc |-> desc']
    /\ pc' = "ready"
    /\ UNCHANGED <<ctorVars_but_pc, callVars, concVars>>

(***************************************************************************)
(* The constructor's specification.                                        *)
(***************************************************************************)
\* the filesystem before the first construction: some files and the
\* directories above them
InitialFs == {UNION {Ancestors(f) : f \in F} : F \in SUBSET InitialFiles}

InitCalls ==
    /\ hist = <<>>
    /\ streams = <<>>
    /\ nCalls = 0

Threads == {1, 2}

NoCall == [op |-> "none", prompt |-> <<>>, made |-> 0]

NoWrite == [thread |-> 0, flag |-> FALSE]

InitConc ==
    /\ tpc = [t \in Threads |-> "idle"]
    /\ tcall = [t \in Threads |-> NoCall]
    /\ invLog = <<>>
    /\ lastWrite = NoWrite

Init ==
    /\ fs \in InitialFs
    /\ pc = "idle"
    /\ model_url = None
    /\ model_path_arg = None
    /\ model_path = None
    /\ header = NoHeader
    /\ total_size = Unset
    /\ written = 0
    /\ completed = FALSE
    /\ failure = "none"
    /\ caught = FALSE
    /\ err = "none"
    /\ engineLoads = <<>>
    /\ netGets = 0
    /\ fsWrites = 0
    /\ cacheHit = "unknown"
    /\ fsAtBegin = fs
    /\ downloaded = <<>>
    /\ nCtor = 0
    /\ generate_kwargs = EmptyDict
    /\ desc = NoInstance
    /\ atCtor = [generate_kwargs |-> EmptyDict, desc |-> NoInstance]
    /\ InitCalls
    /\ InitConc

Next ==
    \/ \E url \in Urls, path \in ExplicitPaths \cup {None} : Begin(url, path)
    \/ ResolveExplicit
    \/ ResolveCache
    \/ MakeDirs
    \/ DlGet
    \/ DlOpen
    \/ DlSize
    \/ DlWrite
    \/ DlExcept
    \/ DlFinally
    \/ AssertExists
    \/ LoadEngine
    \/ SuperInit

Spec == Init /\ [][Next]_vars

(***************************************************************************)
(* The engine, an opaque callable: self._model(prompt=..., **kwargs) gives *)
(* one response, or with stream=True an iterator of chunks, or raises.     *)
(***************************************************************************)
Choice(t) == [text |-> t]

NoResponse == [choices |-> <<>>]

Responses ==
    { [choices |-> <<Choice(<<"o", "k">>)>>],
      [choices |-> <<Choice(<<>>), Choice(<<"x">>)>>] }

EngineErrors == {"RuntimeError"}

EngineOutcomes ==
    {[ok |-> TRUE, response |-> r, error |-> "none"] : r \in Responses} \cup
    {[ok |-> FALSE, response |-> NoResponse, error |-> e] : e \in EngineErrors}

ChunkKinds ==
    { [choices |-> <<Choice(<<"a">>)>>],
      [choices |-> <<Choice(<<"b", "c">>), Choice(<<"z">>)>>] }

\* the finite chunk sequences an engine iterator may produce
ChunkSeqs == UNION {[1..n -> ChunkKinds] : n \in 0..MaxChunks}

(***************************************************************************)
(* Messages and prompts.                                                   *)
(***************************************************************************)
Msg(role, content) == [role |-> role, content |-> content]

MessageLists ==
    { <<Msg("system", <<"s">>), Msg("user", <<"q">>)>> }

BasePrompts == { <<"h", "i">> }

\* generic_messages_to_prompt: one "role: content" line per message, then the
\* assistant's cue
RECURSIVE GenericMessagesToPrompt(_)
GenericMessagesToPrompt(messages) ==
    IF messages = <<>> THEN <<"assistant", ":", " ">>
    ELSE <<messages[1].role, ":", " ">> \o messages[1].content \o <<"\n">>
         \o GenericMessagesToPrompt(Tail(messages))

\* a formatter of the caller's: the contents, each closed by a separator
RECURSIVE CustomMessagesToPrompt(_)
CustomMessagesToPrompt(messages) ==
    IF messages = <<>> THEN <<>>
    ELSE messages[1].content \o <<";">> \o CustomMessagesToPrompt(Tail(messages))

\* self.messages_to_prompt(messages); line 113 makes the generic one the default
MessagesToPrompt(kind, messages) ==
    IF kind = "default" THEN GenericMessagesToPrompt(messages)
    ELSE CustomMessagesToPrompt(messages)

\* self.completion_to_prompt(prompt); line 114 makes lambda x: x the default
CompletionToPrompt(kind, prompt) ==
    IF kind = "default" THEN prompt
    ELSE <<"[">> \o prompt \o <<"]">>

\* the prompts a caller may pass to complete: any text, the text a formatter
\* gives for a message list included
PromptsFor(d) ==
    BasePrompts \cup {MessagesToPrompt(d.messages_to_prompt, m) : m \in MessageLists}

(***************************************************************************)
(* Responses of the adapter.                                               *)
(***************************************************************************)
\* Python's None in a delta field
NoDelta == <<"None">>

\* CompletionResponse(text=..., delta=..., raw=...)
CompletionResponse(text, delta, raw) ==
    [kind |-> "completion", role |-> "none", text |-> text, delta |-> delta,
     raw |-> raw, error |-> "none"]

\* an exception leaving the call
Raised(e) ==
    [kind |-> "raised", role |-> "none", text |-> <<>>, delta |-> NoDelta,
     raw |-> NoResponse, error |-> e]

\* completion_response_to_chat_response and, per element,
\* stream_completion_response_to_chat_response: the same text, delta and raw,
\* framed as the assistant's message
ToChatResponse(r) ==
    IF r.kind = "completion"
    THEN [r EXCEPT !.kind = "chat", !.role = "assistant"]
    ELSE r

\* a variant that takes the last choice
FirstChoiceTextLast(response) == response.choices[Len(response.choices)].text

\* response["choices"][0]["text"]
FirstChoiceText(response) == response.choices[1].text

\* a variant that leaves a flag already in the map alone (dict.setdefault)
SetStreamDefault(gk, flag) ==
    IF "stream" \in DOMAIN gk THEN gk ELSE DictSet(gk, "stream", flag)

\* lines 189 and 198: self.generate_kwargs.update({"stream": flag})
SetStream(gk, flag) == DictSet(gk, "stream", flag)

\* self._model(prompt=prompt, **self.generate_kwargs): what the engine receives
Invocation(prompt, gk) == [prompt |-> prompt, kwargs |-> gk]

\* lines 187-194, complete: the map after the call, the engine invocations made
\* and what the caller gets, for the engine's outcome out
CompleteCall(gk, d, prompt, out) ==
    LET kw == SetStream(gk, FALSE)
        p == CompletionToPrompt(d.completion_to_prompt, prompt)
    IN  [ generate_kwargs |-> kw,
          invocations |-> <<Invocation(p, kw)>>,
          result |-> IF out.ok
                     THEN CompletionResponse(FirstChoiceText(out.response),
                                             NoDelta, out.response)
                     ELSE Raised(out.error) ]

\* a variant of chat that calls the engine itself, without the prompt shaping
ChatCallBypass(gk, d, messages, out) ==
    LET kw == SetStream(gk, FALSE)
        p == MessagesToPrompt(d.messages_to_prompt, messages)
    IN  [ generate_kwargs |-> kw,
          invocations |-> <<Invocation(p, kw)>>,
          result |-> IF out.ok
                     THEN ToChatResponse(
                              CompletionResponse(FirstChoiceText(out.response),
                                                 NoDelta, out.response))
                     ELSE Raised(out.error) ]

\* lines 173-177, chat
ChatCall(gk, d, messages, out) ==
    LET prompt == MessagesToPrompt(d.messages_to_prompt, messages)
        c == CompleteCall(gk, d, prompt, out)
    IN  [c EXCEPT !.result = ToChatResponse(c.result)]

\* a finished call, as the caller and the engine saw it
Finished(op, input, out, before, c) ==
    [ op |-> op, input |-> input, engine |-> out, before |-> before,
      invocations |-> c.invocations, result |-> c.result,
      after |-> c.generate_kwargs ]

Complete(prompt) ==
    /\ pc = "ready"
    /\ nCalls < MaxCalls
    /\ \E out \in EngineOutcomes :
          LET c == CompleteCall(generate_kwargs, desc, prompt, out)
          IN  /\ generate_kwargs' = c.generate_kwargs
              /\ hist' = Append(hist, Finished("complete", prompt, out,
                                               generate_kwargs, c))
    /\ nCalls' = nCalls + 1
    /\ UNCHANGED <<ctorVars, desc, atCtor, streams, concVars>>

Chat(messages) ==
    /\ pc = "ready"
    /\ nCalls < MaxCalls
    /\ \E out \in EngineOutcomes :
          LET c == ChatCall(generate_kwargs, desc, messages, out)
          IN  /\ generate_kwargs' = c.generate_kwargs
              /\ hist' = Append(hist, Finished("chat", messages, out,
                                               generate_kwargs, c))
    /\ nCalls' = nCalls + 1
    /\ UNCHANGED <<ctorVars, desc, atCtor, streams, concVars>>

(***************************************************************************)
(* Streaming: stream_complete, stream_chat and the generator gen().        *)
(***************************************************************************)
StreamOutcomes ==
    {[ok |-> TRUE, chunks |-> cs, error |-> "none"] : cs \in ChunkSeqs} \cup
    {[ok |-> FALSE, chunks |-> <<>>, error |-> e] : e \in EngineErrors}

\* lines 196-201, stream_complete up to the engine invocation
StreamCompleteCall(gk, d, prompt, out) ==
    LET kw == SetStream(gk, TRUE)
        p == CompletionToPrompt(d.completion_to_prompt, prompt)
    IN  [ generate_kwargs |-> kw,
          invocations |-> <<Invocation(p, kw)>>,
          result |-> IF out.ok THEN CompletionResponse(<<>>, NoDelta, NoResponse)
                     ELSE Raised(out.error) ]

\* lines 179-185, stream_chat up to the engine invocation
StreamChatCall(gk, d, messages, out) ==
    StreamCompleteCall(gk, d, MessagesToPrompt(d.messages_to_prompt, messages), out)

\* line 210: the generator object gen() returns; nothing of its body has run
Generator(op, input, before, c, chunks) ==
    [ op |-> op, input |-> input, before |-> before,
      invocation |-> c.invocations[1],
      response_iter |-> chunks,   \* the engine's iterator, as a whole
      pos |-> 0,                  \* chunks taken from it
      text |-> <<>>,              \* gen's local text
      yielded |-> <<>>,           \* what the consumer has received
      done |-> FALSE ]            \* the generator has returned

\* what stream_chat's wrapper does to each element
Wrap(op, r) == IF op = "stream_chat" THEN ToChatResponse(r) ELSE r

\* a variant that forgets the text so far: text = delta
GenNextNoAccumulate(g) ==
    IF g.pos < Len(g.response_iter)
    THEN LET response == g.response_iter[g.pos + 1]
             delta == FirstChoiceText(response)
         IN  [g EXCEPT !.pos = @ + 1,
                       !.text = delta,
                       !.yielded = Append(@, Wrap(g.op,
                                       CompletionResponse(delta, delta, response)))]
    ELSE [g EXCEPT !.done = TRUE]

\* lines 203-208: one next() on the generator
GenNext(g) ==
    IF g.pos < Len(g.response_iter)
    THEN LET response == g.response_iter[g.pos + 1]
             delta == FirstChoiceText(response)
             text == g.text \o delta
         IN  [g EXCEPT !.pos = @ + 1,
                       !.text = text,
                       !.yielded = Append(@, Wrap(g.op,
                                       CompletionResponse(text, delta, response)))]
    ELSE [g EXCEPT !.done = TRUE]

\* a streaming call: the generator is returned, or the engine's exception leaves
Streaming(op, input, c, out) ==
    /\ generate_kwargs' = c.generate_kwargs
    /\ IF out.ok
       THEN /\ streams' = Append(streams,
                                 Generator(op, input, generate_kwargs, c, out.chunks))
            /\ hist' = hist
       ELSE /\ hist' = Append(hist, Finished(op, input, out, generate_kwargs, c))
            /\ streams' = streams

StreamComplete(prompt) ==
    /\ pc = "ready"
    /\ nCalls < MaxCalls
    /\ Len(streams) < MaxStreams
    /\ \E out \in StreamOutcomes :
          Streaming("stream_complete", prompt,
                    StreamCompleteCall(generate_kwargs, desc, prompt, out), out)
    /\ nCalls' = nCalls + 1
    /\ UNCHANGED <<ctorVars, desc, atCtor, concVars>>

StreamChat(messages) ==
    /\ pc = "ready"
    /\ nCalls < MaxCalls
    /\ Len(streams) < MaxStreams
    /\ \E out \in StreamOutcomes :
          Streaming("stream_chat", messages,
                    StreamChatCall(generate_kwargs, desc, messages, out), out)
    /\ nCalls' = nCalls + 1
    /\ UNCHANGED <<ctorVars, desc, atCtor, concVars>>

\* the consumer asks generator i for its next element
NextChunk(i) ==
    /\ pc = "ready"
    /\ i \in 1..Len(streams)
    /\ ~streams[i].done
    /\ streams' = [streams EXCEPT ![i] = GenNext(@)]
    /\ UNCHANGED <<ctorVars, instVars, hist, nCalls, concVars>>

(***************************************************************************)
(* A constructed instance: the state __init__ leaves when it is given an   *)
(* existing explicit path and the engine loads.                            *)
(***************************************************************************)
ReadyPath == <<"m", "x.bin">>

ReadyUrl == <<"hostA", "a.bin">>

Constructed(user, mk, m2p, c2p) ==
    /\ fs = Ancestors(ReadyPath)
    /\ pc = "ready"
    /\ model_url = ReadyUrl
    /\ model_path_arg = ReadyPath
    /\ model_path = ReadyPath
    /\ header = NoHeader
    /\ total_size = Unset
    /\ written = 0
    /\ completed = FALSE
    /\ failure = "none"
    /\ caught = FALSE
    /\ err = "none"
    /\ engineLoads = <<[path |-> ReadyPath, existed |-> TRUE, kwargs |-> ModelKwargs(mk)]>>
    /\ netGets = 0
    /\ fsWrites = 0
    /\ cacheHit = "unknown"
    /\ fsAtBegin = fs
    /\ downloaded = <<>>
    /\ nCtor = 1
    /\ generate_kwargs = GenerateKwargs(user)
    /\ desc = Fields(ReadyPath, ReadyUrl, ModelKwargs(mk), m2p, c2p)
    /\ atCtor = [generate_kwargs |-> generate_kwargs, desc |-> desc]

InitReady ==
    /\ \E user \in UserGenerateKwargs, f \in Formatters :
          Constructed(user, EmptyDict, f, f)
    /\ InitCalls
    /\ InitConc

NextCalls ==
    \/ \E prompt \in PromptsFor(desc) : Complete(prompt)
    \/ \E messages \in MessageLists : Chat(messages)
    \/ \E prompt \in BasePrompts : StreamComplete(prompt)
    \/ \E messages \in MessageLists : StreamChat(messages)
    \/ \E i \in 1..MaxStreams : NextChunk(i)

SpecCalls == InitReady /\ [][NextCalls]_vars

(***************************************************************************)
(* Two threads on one instance.  A thread runs complete or stream_complete *)
(* statement by statement: the update of the shared map (line 189 or 198), *)
(* then the engine invocation, which unpacks the shared map as it is at    *)
(* that moment (line 192 or 201).                                          *)
(***************************************************************************)
ThreadOps == {"complete", "stream_complete"}

\* the flag an operation writes
FlagOf(op) == op = "stream_complete"

T_Call(t, op, prompt) ==
    /\ pc = "ready"
    /\ tpc[t] = "idle"
    /\ tcall[t].made < MaxThreadCalls
    /\ tcall' = [tcall EXCEPT ![t] = [op |-> op, prompt |-> prompt, made |-> @.made + 1]]
    /\ tpc' = [tpc EXCEPT ![t] = "update"]
    /\ UNCHANGED <<ctorVars, instVars, callVars, invLog, lastWrite>>

\* lines 189 and 198
T_Update(t) ==
    /\ tpc[t] = "update"
    /\ generate_kwargs' = SetStream(generate_kwargs, FlagOf(tcall[t].op))
    /\ lastWrite' = [thread |-> t, flag |-> FlagOf(tcall[t].op)]
    /\ tpc' = [tpc EXCEPT ![t] = "invoke"]
    /\ UNCHANGED <<ctorVars, desc, atCtor, callVars, tcall, invLog>>

\* a variant that gives the engine options of the call's own
T_InvokeIsolated(t) ==
    /\ tpc[t] = "invoke"
    /\ invLog' = Append(invLog,
          [ thread |-> t, op |-> tcall[t].op, wrote |-> lastWrite,
            invocation |->
               Invocation(CompletionToPrompt(desc.completion_to_prompt, tcall[t].prompt),
                          SetStream(generate_kwargs, FlagOf(tcall[t].op))) ])
    /\ tpc' = [tpc EXCEPT ![t] = "idle"]
    /\ UNCHANGED <<ctorVars, instVars, callVars, tcall, lastWrite>>

\* lines 190-192 and 199-201
T_Invoke(t) ==
    /\ tpc[t] = "invoke"
    /\ invLog' = Append(invLog,
          [ thread |-> t, op |-> tcall[t].op, wrote |-> lastWrite,
            invocation |->
               Invocation(CompletionToPrompt(desc.completion_to_prompt, tcall[t].prompt),
                          generate_kwargs) ])
    /\ tpc' = [tpc EXCEPT ![t] = "idle"]
    /\ UNCHANGED <<ctorVars, instVars, callVars, tcall, lastWrite>>

NextConc ==
    \/ \E t \in Threads, op \in ThreadOps, prompt \in BasePrompts : T_Call(t, op, prompt)
    \/ \E t \in Threads : T_Update(t)
    \/ \E t \in Threads : T_Invoke(t)

SpecConc == InitReady /\ [][NextConc]_vars

(***************************************************************************)
(* Properties of the constructor, checked under Spec.                      *)
(***************************************************************************)
\* _download_url has been left with an exception
DownloadFailed == pc = "failed" /\ failure # "none"

\* C1: every failure of _download_url ends with the "Download incomplete."
\* error and with no file at the target path, after a single attempt.
C1_FailureRaisesDownloadIncomplete ==
    DownloadFailed =>
        /\ err = "DownloadIncomplete"
        /\ ~Exists(fs, model_path)
        /\ netGets <= 1

\* the size the source reports was read and is below the minimum
SmallSource == total_size # Unset /\ total_size < MinSize

\* C2 as stated: for a source whose reported size is below the minimum,
\* _download_url raises a content-validation error to its caller and leaves no
\* file at the target path.
C2_RaisesContentValidation ==
    (pc = "failed" /\ SmallSource) =>
        /\ err = "ContentValidation"
        /\ ~Exists(fs, model_path)

\* C2 as amended: for such a source the content-validation error is raised
\* inside the routine before anything is written, caught and printed, and the
\* caller receives the "Download incomplete." error; no file is left at the
\* target path.
C2_SmallSourceDownloadIncomplete ==
    SmallSource =>
        /\ written = 0
        /\ failure = "ContentValidation"
        /\ pc \in {"dl_except", "dl_finally", "failed"}
        /\ pc = "failed" =>
              /\ caught
              /\ err = "DownloadIncomplete"
              /\ ~Exists(fs, model_path)

C2_Witness ==
    /\ pc = "failed"
    /\ SmallSource
    /\ header.present
    /\ total_size = MinSize - 1
    /\ err = "DownloadIncomplete"

\* the positions inside the download branch of __init__
DownloadPcs == {"makedirs", "dl_get", "dl_open", "dl_size", "dl_write",
                "dl_except", "dl_finally", "assert"}

\* C3: with an explicit model_path no download is ever attempted, and when that
\* path does not exist construction fails with the configuration error before
\* any download and before the engine is constructed.
C3_ExplicitPathNeverDownloads ==
    model_path_arg # None =>
        /\ netGets = 0
        /\ pc \notin DownloadPcs
        /\ fs = fsAtBegin
        /\ (~Exists(fs, model_path_arg) /\ pc # "resolve") =>
              /\ pc = "failed"
              /\ err = "PathNotExist"
              /\ engineLoads = <<>>

C3_Witness ==
    /\ model_path_arg # None
    /\ ~Exists(fs, model_path_arg)
    /\ ~Exists(fs, CachePath(model_url))
    /\ pc = "failed"
    /\ err = "PathNotExist"

InSeq(x, q) == \E i \in 1..Len(q) : q[i] = x

\* C4: when the cache path already exists, resolution makes no network access
\* and no filesystem write; a path whose download completed is never fetched
\* again by a later construction.
C4_CachedPathNoIO ==
    /\ cacheHit = "hit" =>
          /\ netGets = 0
          /\ fsWrites = 0
          /\ fs = fsAtBegin
          /\ pc \notin DownloadPcs
    /\ (pc \in DownloadPcs /\ ~completed) => ~InSeq(model_path, downloaded)
    /\ \A i, j \in 1..Len(downloaded) : downloaded[i] = downloaded[j] => i = j

C4_Witness ==
    /\ nCtor = 2
    /\ cacheHit = "hit"
    /\ InSeq(model_path, downloaded)
    /\ model_url = <<"hostB", "a.bin">>
    /\ pc = "ready"

\* the one path this construction may load the engine from
ArtifactPath ==
    IF model_path_arg # None THEN model_path_arg ELSE CachePath(model_url)

\* C5: the engine is constructed at most once per construction, from the
\* explicit path if given and else from the cache path, only when that path
\* exists; after a failed download it is never constructed and construction
\* fails.
C5_EngineLoadedOnceFromExistingPath ==
    /\ Len(engineLoads) <= 1
    /\ \A i \in 1..Len(engineLoads) :
          /\ engineLoads[i].path = ArtifactPath
          /\ engineLoads[i].existed
    /\ pc \in {"super", "ready"} => Len(engineLoads) = 1
    /\ failure # "none" =>
          /\ engineLoads = <<>>
          /\ pc \in {"dl_except", "dl_finally", "failed"}
          /\ pc = "failed" => err # "none"

C5_Witness ==
    /\ pc = "ready"
    /\ model_path_arg = None
    /\ netGets = 1
    /\ completed
    /\ Len(engineLoads) = 1
    /\ engineLoads[1].path = CachePath(model_url)

(***************************************************************************)
(* Properties of the calls, checked under SpecCalls.                       *)
(***************************************************************************)
\* the concatenation of the first k chunks' first-choice texts
RECURSIVE ConcatDeltas(_, _)
ConcatDeltas(chunks, k) ==
    IF k = 0 THEN <<>>
    ELSE ConcatDeltas(chunks, k - 1) \o chunks[k].choices[1].text

\* C6: stream_complete yields one response per engine chunk, in order; the k-th
\* has the k-th chunk's first-choice text as delta and the concatenation of the
\* first k deltas as text; the stream ends exactly when the engine's does.
C6_StreamTextIsConcatenation ==
    \A i \in 1..Len(streams) :
        LET g == streams[i]
            n == Len(g.yielded)
        IN  g.op = "stream_complete" =>
              /\ n <= Len(g.response_iter)
              /\ \A k \in 1..n :
                    /\ g.yielded[k].kind = "completion"
                    /\ g.yielded[k].delta = g.response_iter[k].choices[1].text
                    /\ g.yielded[k].text = ConcatDeltas(g.response_iter, k)
                    /\ g.yielded[k].raw = g.response_iter[k]
              /\ g.done =>
                    /\ n = Len(g.response_iter)
                    /\ n > 0 => g.yielded[n].text = ConcatDeltas(g.response_iter, n)

C6_Witness ==
    \E i \in 1..Len(streams) :
        /\ streams[i].op = "stream_complete"
        /\ streams[i].done
        /\ Len(streams[i].yielded) = 2
        /\ streams[i].yielded[1].delta = <<"a">>
        /\ streams[i].yielded[2].delta = <<"b", "c">>
        /\ streams[i].yielded[2].text = <<"a", "b", "c">>

\* C7: complete invokes the engine once, with completion_to_prompt(prompt), and
\* returns the first choice's text unmodified with the engine's response as
\* raw; an exception of the engine reaches the caller unchanged.
C7_CompleteReturnsFirstChoice ==
    \A i \in 1..Len(hist) :
        LET h == hist[i]
        IN  h.op = "complete" =>
              /\ Len(h.invocations) = 1
              /\ h.invocations[1].prompt =
                    CompletionToPrompt(desc.completion_to_prompt, h.input)
              /\ h.engine.ok =>
                    /\ h.result.kind = "completion"
                    /\ h.result.text = h.engine.response.choices[1].text
                    /\ h.result.raw = h.engine.response
              /\ ~h.engine.ok =>
                    /\ h.result.kind = "raised"
                    /\ h.result.error = h.engine.error

C7_Witness ==
    \E i \in 1..Len(hist) :
        /\ hist[i].op = "complete"
        /\ desc.completion_to_prompt = "custom"
        /\ hist[i].invocations[1].prompt = <<"[", "h", "i", "]">>
        /\ Len(hist[i].engine.response.choices) = 2
        /\ hist[i].result.text = <<>>

\* C8: chat(messages) and complete(messages_to_prompt(messages)), given the same
\* answer by the engine, make the same single engine invocation, return the
\* same text and raw response (or raise the same error) and leave the same
\* generation options; chat changes nothing else.
C8_ChatIsFormatThenComplete ==
    /\ desc = atCtor.desc
    /\ \A i, j \in 1..Len(hist) :
          ( /\ hist[i].op = "chat"
            /\ hist[j].op = "complete"
            /\ hist[j].input = MessagesToPrompt(desc.messages_to_prompt, hist[i].input)
            /\ hist[j].engine = hist[i].engine )
          => /\ Len(hist[i].invocations) = 1
             /\ hist[i].invocations[1].prompt = hist[j].invocations[1].prompt
             /\ hist[i].invocations[1].kwargs = hist[j].invocations[1].kwargs
             /\ hist[i].result.text = hist[j].result.text
             /\ hist[i].result.raw = hist[j].result.raw
             /\ hist[i].result.error = hist[j].result.error
             /\ hist[i].after = hist[j].after
             /\ hist[i].engine.ok => /\ hist[i].result.kind = "chat"
                                     /\ hist[i].result.role = "assistant"

C8_Witness ==
    \E i, j \in 1..Len(hist) :
        /\ hist[i].op = "chat"
        /\ hist[j].op = "complete"
        /\ hist[j].input = MessagesToPrompt(desc.messages_to_prompt, hist[i].input)
        /\ hist[j].engine = hist[i].engine
        /\ hist[i].engine.ok
        /\ desc.completion_to_prompt = "custom"

\* whether op is one of the streaming operations
IsStreamOp(op) == op \in {"stream_complete", "stream_chat"}

\* maps a and b agree on every key but "stream"
SameButStream(a, b) ==
    /\ (DOMAIN a) \ {"stream"} = (DOMAIN b) \ {"stream"}
    /\ \A k \in (DOMAIN a) \ {"stream"} : a[k] = b[k]

\* C9: in single-threaded use every engine invocation of complete / chat
\* receives stream = False and every one of stream_complete / stream_chat
\* receives stream = True, whatever calls came before and whether or not an
\* earlier stream is still unconsumed; a call changes nothing of the adapter
\* but the "stream" entry of the generation options.
C9_FlagPerCallAndNothingElseChanges ==
    /\ \A i \in 1..Len(hist) :
          /\ \A k \in 1..Len(hist[i].invocations) :
                /\ hist[i].invocations[k].kwargs["stream"] = IsStreamOp(hist[i].op)
                /\ SameButStream(hist[i].invocations[k].kwargs, atCtor.generate_kwargs)
          /\ SameButStream(hist[i].after, hist[i].before)
          /\ "stream" \in DOMAIN hist[i].after
    /\ \A i \in 1..Len(streams) :
          /\ streams[i].invocation.kwargs["stream"] = TRUE
          /\ SameButStream(streams[i].invocation.kwargs, atCtor.generate_kwargs)
    /\ SameButStream(generate_kwargs, atCtor.generate_kwargs)
    /\ desc = atCtor.desc

C9_Witness ==
    /\ "stream" \notin DOMAIN atCtor.generate_kwargs
    /\ \E i \in 1..Len(streams) :
          /\ streams[i].pos = 1
          /\ Len(streams[i].response_iter) = 2
    /\ \E i \in 1..Len(hist) :
          /\ hist[i].op = "complete"
          /\ "stream" \in DOMAIN hist[i].before
          /\ hist[i].before["stream"] = TRUE
          /\ hist[i].invocations[1].kwargs["stream"] = FALSE

(***************************************************************************)
(* Properties of concurrent calls, checked under SpecConc.                 *)
(***************************************************************************)
\* C10: the streaming flag is not isolated between concurrent calls: an engine
\* invocation receives the flag last written to the shared map, whichever call
\* wrote it, so a complete call that another thread's stream_complete overtakes
\* between its update and its invocation invokes the engine with stream = True
\* (and stream_complete, symmetrically, with stream = False).
C10_InvocationGetsLastWrittenFlag ==
    \A i \in 1..Len(invLog) :
        /\ invLog[i].wrote.thread \in Threads
        /\ invLog[i].invocation.kwargs["stream"] = invLog[i].wrote.flag

C10_Witness ==
    /\ \E i \in 1..Len(invLog) :
          /\ invLog[i].op = "complete"
          /\ invLog[i].invocation.kwargs["stream"] = TRUE
          /\ invLog[i].wrote.thread # invLog[i].thread
    /\ \E i \in 1..Len(invLog) :
          /\ invLog[i].op = "stream_complete"
          /\ invLog[i].invocation.kwargs["stream"] = FALSE
          /\ invLog[i].wrote.thread # invLog[i].thread

====
